---- MODULE Spec2Model ----
(***************************************************************************)
(* Symmetry-adapted reciprocal-space basis (Pscf::Pssp_gpu::Basis<2>).     *)
(*                                                                         *)
(* The state is one Basis object (its Wave table, its Star table, the      *)
(* counters nWave_ and nStar_), the Mesh and UnitCell objects it points    *)
(* to, the group name, and one symmetry-adapted field (components) and     *)
(* one DFT field (dft) that the conversions read and write.  The Domain    *)
(* object that owns a mesh, a unit cell and a basis adds its own members.  *)
(* A Mixture (MixtureTmpl) is held by its counters and the sizes of its    *)
(* arrays, and a LinearSweepParameter by its members and the parameters    *)
(* of the System it points to.                                             *)
(*                                                                         *)
(* All arrays are 0-based functions, as in the C++ containers.             *)
(* Complex numbers are Gaussian integers <<re, im>>: every phase factor    *)
(* of the groups modelled here is one of 1, -1, i, -i.                     *)
(* Squared norms are kept in units of 4 pi^2 / (a b)^2, a and b being the  *)
(* unit cell lengths (b = a for a square cell), so that they are integers. *)
(***************************************************************************)
EXTENDS Integers, Sequences, FiniteSets, TLC

VARIABLES
    mesh,           \* dimensions <<N1, N2>> of the Mesh object the caller holds
    unitCell,       \* [lattice, a, b]: the UnitCell object the caller holds
    groupName,      \* name of the space group
    waves_,         \* Wave table: 0..nWave_-1 -> Wave
    stars_,         \* Star table: 0..nStar_-1 -> Star
    nWave_,         \* total number of wavevectors
    nStar_,         \* total number of stars
    waveId_,        \* index in the Wave table of the wave of each mesh rank
    isInitialized_, \* has makeBasis completed?
    components,     \* symmetry-adapted field: 0..nBasis-1 -> Int
    dft,            \* DFT field: 0..nWave_-1 -> <<re, im>>, by mesh rank
    op,             \* the last operation applied
    componentsIn,   \* the components that dft was converted from
    dftIn,          \* the dft that components was converted from
    error,          \* how the last operation ended: "none" or the error raised
    dksq,           \* derivatives of the squared norm of each star, by parameter
    result,         \* what the last call of wave(i) or star(i) returned
    pending,        \* waves whose task of a conversion has not run yet
    writeCount,     \* number of writes to each DFT slot by the tasks run so far
    lattice_,       \* Domain: lattice system
    hasFileMaster_, \* Domain: has a FileMaster been set?
    domainIsInitialized_,  \* Domain: isInitialized_
    group_,         \* Domain: name of the group that group_ was read for
    waveList_,      \* Domain: [isAllocated, hasMinimumImages, hasKSq] of the WaveList
    built,          \* did the last operation of the Domain build the tables of the basis?
    calls,          \* Domain: the calls of Basis::makeBasis and WaveList::computeKSq
                    \* that the last operation made
    nMonomer_,      \* Mixture: number of monomer types
    nPolymer_,      \* Mixture: number of polymer species
    nSolvent_,      \* Mixture: number of solvent species
    nPieces_,       \* Mixture: number of pieces
    polymers_,      \* Mixture: the polymers allocated, each by its number of blocks
    solvents_,      \* Mixture: capacity of the array of solvents
    type_,          \* LinearSweepParameter: type of the parameter swept
    id_,            \* LinearSweepParameter: identifiers of the parameter
    initial_,       \* LinearSweepParameter: value stored by getInitial
    change_,        \* LinearSweepParameter: change planned over the sweep
    hasInitial,     \* LinearSweepParameter: has getInitial stored initial_?
    system,         \* the parameters of the System, by what they belong to
    sweepS          \* numerator of the sweep coordinate s of the last update

metricVars == <<dksq>>

accessVars == <<result>>

taskVars == <<pending, writeCount>>

domainVars == <<lattice_, hasFileMaster_, domainIsInitialized_, group_, waveList_,
                built, calls>>

mixtureVars == <<nMonomer_, nPolymer_, nSolvent_, nPieces_, polymers_, solvents_>>

sweepVars == <<type_, id_, initial_, change_, hasInitial, system, sweepS>>

vars == <<mesh, unitCell, groupName, waves_, stars_, nWave_, nStar_, waveId_,
          isInitialized_, components, dft, op, componentsIn, dftIn, error,
          metricVars, accessVars, taskVars, domainVars, mixtureVars, sweepVars>>

(***************************************************************************)
(* Bounds of the model.                                                    *)
(***************************************************************************)
MaxDim == 4      \* largest number of grid points along one direction
MaxParam == 2    \* largest unit cell length
MaxCoef == 2     \* largest magnitude of a field coefficient
MaxDomainDim == 2  \* number of grid points along each direction of a Domain's mesh
MaxTasks == 4    \* largest number of waves converted by one task per wave
MaxSpecies == 2  \* largest number of monomer types, polymers, solvents and blocks
SweepSteps == 2  \* a sweep coordinate s is one of 0, 1/SweepSteps, ..., 1
MaxChange == 2   \* largest size of the change of a swept parameter, in units of SweepSteps
MaxValue == 2    \* largest value of a parameter of the System before the sweep

(***************************************************************************)
(* Meshes, unit cells and space groups.                                    *)
(***************************************************************************)
Dims == 1..MaxDim

Meshes == { <<n1, n2>> : n1 \in Dims, n2 \in Dims }

\* All wavevectors of the mesh, by DFT indices.
MeshPositions(m) == { <<i, j>> : i \in 0..(m[1] - 1), j \in 0..(m[2] - 1) }

\* Rank of a position in the mesh (last index runs fastest).
MeshRank(m, k) == k[1] * m[2] + k[2]

UnitCells ==
    { [lattice |-> "Square", a |-> a, b |-> a] : a \in 1..MaxParam }
    \cup { [lattice |-> "Rectangular", a |-> 1, b |-> b] : b \in 2..MaxParam }
    \cup { [lattice |-> "Rectangular", a |-> a, b |-> 1] : a \in 2..MaxParam }

\* A symmetry operation: point operation R (acting on a row vector of
\* wavevector indices) and translation t in units of half a cell length.
SymOp(r11, r12, r21, r22, t1, t2) ==
    [R |-> << <<r11, r12>>, <<r21, r22>> >>, t |-> <<t1, t2>>]

GroupOps(name) ==
    CASE name = "I"   -> { SymOp(1, 0, 0, 1, 0, 0) }
      [] name = "p2"  -> { SymOp(1, 0, 0, 1, 0, 0), SymOp(-1, 0, 0, -1, 0, 0) }
      [] name = "pm"  -> { SymOp(1, 0, 0, 1, 0, 0), SymOp(-1, 0, 0, 1, 0, 0) }
      [] name = "pg"  -> { SymOp(1, 0, 0, 1, 0, 0), SymOp(-1, 0, 0, 1, 0, 1) }
      [] name = "pmm" -> { SymOp(1, 0, 0, 1, 0, 0), SymOp(-1, 0, 0, -1, 0, 0),
                           SymOp(-1, 0, 0, 1, 0, 0), SymOp(1, 0, 0, -1, 0, 0) }
      [] name = "pgg" -> { SymOp(1, 0, 0, 1, 0, 0), SymOp(-1, 0, 0, -1, 0, 0),
                           SymOp(-1, 0, 0, 1, 1, 1), SymOp(1, 0, 0, -1, 1, 1) }
      [] name = "p4"  -> { SymOp(1, 0, 0, 1, 0, 0), SymOp(-1, 0, 0, -1, 0, 0),
                           SymOp(0, 1, -1, 0, 0, 0), SymOp(0, -1, 1, 0, 0, 0) }

GroupNames == {"I", "p2", "pm", "pg", "pmm", "pgg", "p4"}

\* A group fits a mesh and a lattice when every operation maps the grid
\* onto itself and leaves the metric unchanged.
Compatible(m, cell, name) ==
    /\ \A g \in GroupOps(name) :
          /\ g.t[1] = 1 => m[1] % 2 = 0
          /\ g.t[2] = 1 => m[2] % 2 = 0
    /\ name = "p4" => (m[1] = m[2] /\ cell.lattice = "Square")

(***************************************************************************)
(* Wavevector arithmetic.                                                  *)
(***************************************************************************)
\* -k modulo the mesh.
Negate(m, k) == << (m[1] - k[1]) % m[1], (m[2] - k[2]) % m[2] >>

\* Image of wavevector k under symmetry operation g, modulo the mesh.
ApplyOp(m, g, k) ==
    << (k[1] * g.R[1][1] + k[2] * g.R[2][1]) % m[1],
       (k[1] * g.R[1][2] + k[2] * g.R[2][2]) % m[2] >>

\* Phase factor exp(i k.t) of operation g on wavevector k: +1 or -1.
OpPhase(g, k) == IF (k[1] * g.t[1] + k[2] * g.t[2]) % 2 = 0 THEN 1 ELSE -1

\* Lexicographic order of integer indices, first index most significant.
LexGreater(k, q) == k[1] > q[1] \/ (k[1] = q[1] /\ k[2] > q[2])

LexMax(S) == CHOOSE k \in S : \A q \in S : q = k \/ LexGreater(k, q)

\* Index of the minimum image of DFT index i on a direction with n points.
ShiftToMinimum(i, n) == IF 2 * i > n THEN i - n ELSE i

\* Squared norm of wavevector k, in units of 4 pi^2 / (a b)^2.
Ksq(m, cell, k) ==
    LET g1 == ShiftToMinimum(k[1], m[1])
        g2 == ShiftToMinimum(k[2], m[2])
    IN  g1 * g1 * cell.b * cell.b + g2 * g2 * cell.a * cell.a

\* Only the waves whose last index lies beyond the middle of the mesh taken
\* to be implicit.
IsImplicitHalfMesh(m, k) == 2 * k[2] > m[2]

\* Is wave k represented implicitly in the DFT of a real field?  Of each
\* conjugate pair {k, -k} the wave outside the half mesh (last index
\* beyond the middle; first index, when the last indices are equal) is.
IsImplicit(m, k) ==
    LET q == Negate(m, k)
    IN  /\ q # k
        /\ \/ k[2] > q[2]
           \/ (k[2] = q[2] /\ k[1] > q[1])

(***************************************************************************)
(* Accessors of the Basis object.                                          *)
(***************************************************************************)
\* nWave() returning the number of stars.
nWaveReturnsStars == nStar_

nWave == nWave_

nStar == nStar_

wave(i) == waves_[i]

star(i) == stars_[i]

\* Total number of nonzero symmetry-adapted basis functions.
nBasis == Cardinality({ s \in 0..(nStar_ - 1) : ~stars_[s].cancel })

(***************************************************************************)
(* Orbit construction (makeBasis).                                         *)
(***************************************************************************)
\* The set of wavevectors related to k by the operations of the group.
Orbit(m, ops, k) == { ApplyOp(m, g, k) : g \in ops }

\* No star taken to be closed under inversion.
InvertFlagNeverClosed(m, orbit, unitRoot, k) ==
    IF unitRoot \in orbit THEN 1 ELSE -1

\* Index of a star under inversion: 0 if the orbit holds -k for its waves
\* k, else +1 for the star holding the characteristic wave of the pair of
\* orbits and -1 for the other.
InvertFlag(m, orbit, unitRoot, k) ==
    IF Negate(m, k) \in orbit THEN 0
    ELSE IF unitRoot \in orbit THEN 1 ELSE -1

\* Root of a star: the wave whose coefficient is 1.
StarRoot(m, unitRoot, invert) ==
    IF invert = -1 THEN Negate(m, unitRoot) ELSE unitRoot

\* Every star taken to be cancelled whose root is not its own inverse.
IsCancelledUnlessSelfInverse(m, ops, root) ==
    \/ Negate(m, root) # root
    \/ \E g \in ops : ApplyOp(m, g, root) = root /\ OpPhase(g, root) = -1

\* A star is cancelled when an operation that leaves its root fixed
\* multiplies the coefficient of the root by -1.
IsCancelled(m, ops, root) ==
    \E g \in ops : ApplyOp(m, g, root) = root /\ OpPhase(g, root) = -1

\* Phase of wave q relative to the root of its star.
PhaseOf(m, ops, root, q) ==
    OpPhase(CHOOSE g \in ops : ApplyOp(m, g, root) = q, root)

\* No parity given to the stars of a pair.
SignFlagOfClosedStars(invert, inversePhase) == IF invert = 0 THEN inversePhase ELSE 0

\* Parity under inversion of the basis function of a star.
SignFlag(invert, inversePhase) == IF invert = 0 THEN inversePhase ELSE invert

\* Coefficient of a wave within the basis function of its star.
WaveCoeff(cancel, invert, sign, phase) ==
    IF cancel THEN <<0, 0>>
    ELSE IF invert = 0 /\ sign = -1 THEN <<0, phase>>
    ELSE <<phase, 0>>

WaveRecord(k, orbit, unitRoot, invert, cancel, sign, phase, ksq) ==
    [indices |-> k,
     size |-> Cardinality(orbit),
     first |-> LexMax(orbit),
     unitRoot |-> unitRoot,
     invert |-> invert,
     cancel |-> cancel,
     sign |-> sign,
     coeff |-> WaveCoeff(cancel, invert, sign, phase),
     ksq |-> ksq]

WaveOfRoot(m, cell, ops, k, orbit, unitRoot, invert, root) ==
    WaveRecord(k, orbit, unitRoot, invert,
               IsCancelled(m, ops, root),
               SignFlag(invert, PhaseOf(m, ops, root, Negate(m, root))),
               PhaseOf(m, ops, root, k),
               Ksq(m, cell, k))

WaveOfOrbit(m, cell, ops, k, orbit, unitRoot, invert) ==
    WaveOfRoot(m, cell, ops, k, orbit, unitRoot, invert,
               StarRoot(m, unitRoot, invert))

WaveOfUnit(m, cell, ops, k, orbit, unitRoot) ==
    WaveOfOrbit(m, cell, ops, k, orbit, unitRoot, InvertFlag(m, orbit, unitRoot, k))

\* What the construction finds out about wavevector k and its star: the
\* characteristic wave is the greatest wave of the orbit of k and of -k.
WaveInfo(m, cell, ops, k) ==
    WaveOfUnit(m, cell, ops, k, Orbit(m, ops, k),
               LexMax(Orbit(m, ops, k) \cup Orbit(m, ops, Negate(m, k))))

\* Stars ordered by their own first wave, not by the characteristic wave of
\* their pair.
StarBeforeByFirstWave(x, y) ==
    \/ x.ksq > y.ksq
    \/ (x.ksq = y.ksq /\ LexGreater(x.first, y.first))

\* Stars ordered by ascending squared norm.
StarBeforeAscending(x, y) ==
    \/ x.ksq < y.ksq
    \/ /\ x.ksq = y.ksq
       /\ \/ LexGreater(x.unitRoot, y.unitRoot)
          \/ (x.unitRoot = y.unitRoot /\ LexGreater(x.first, y.first))

\* Order of the stars: squared norm descending, then characteristic wave
\* descending, the two stars of a pair together, the star that holds the
\* characteristic wave first.
StarBefore(x, y) ==
    \/ x.ksq > y.ksq
    \/ /\ x.ksq = y.ksq
       /\ \/ LexGreater(x.unitRoot, y.unitRoot)
          \/ (x.unitRoot = y.unitRoot /\ LexGreater(x.first, y.first))

\* Waves of a star in ascending order of their indices.
WaveBeforeAscending(x, y) ==
    IF x.first = y.first THEN LexGreater(y.indices, x.indices)
    ELSE \/ x.ksq > y.ksq
         \/ /\ x.ksq = y.ksq
            /\ \/ LexGreater(x.unitRoot, y.unitRoot)
               \/ (x.unitRoot = y.unitRoot /\ LexGreater(x.first, y.first))

\* Order of the waves: by star, then indices descending within the star.
WaveBefore(x, y) ==
    IF x.first = y.first THEN LexGreater(x.indices, y.indices) ELSE StarBefore(x, y)

\* Each wave with its index in the Wave table and the index of its star.
Placed(info) ==
    { [id |-> Cardinality({ y \in info : WaveBefore(y, x) }),
       starId |-> Cardinality({ y \in info : /\ y.indices = y.first
                                             /\ y.first # x.first
                                             /\ StarBefore(y, x) }),
       w |-> x] : x \in info }

WaveEntry(m, p) ==
    [coeff |-> p.w.coeff,
     sqNorm |-> p.w.ksq,
     indicesDft |-> p.w.indices,
     starId |-> p.starId,
     implicit |-> IsImplicit(m, p.w.indices)]

\* endId one past the last wave of the star.
StarEntryEndPastLast(p) ==
    [size |-> p.w.size,
     beginId |-> p.id,
     endId |-> p.id + p.w.size,
     invertFlag |-> p.w.invert,
     signFlag |-> p.w.sign,
     cancel |-> p.w.cancel]

\* invertFlag left at 0 for every star.
StarEntryFlagZero(p) ==
    [size |-> p.w.size,
     beginId |-> p.id,
     endId |-> p.id + p.w.size - 1,
     invertFlag |-> 0,
     signFlag |-> p.w.sign,
     cancel |-> p.w.cancel]

\* size one less than the number of waves of the star.
StarEntrySizeShort(p) ==
    [size |-> p.w.size - 1,
     beginId |-> p.id,
     endId |-> p.id + p.w.size - 1,
     invertFlag |-> p.w.invert,
     signFlag |-> p.w.sign,
     cancel |-> p.w.cancel]

StarEntry(p) ==
    [size |-> p.w.size,
     beginId |-> p.id,
     endId |-> p.id + p.w.size - 1,
     invertFlag |-> p.w.invert,
     signFlag |-> p.w.sign,
     cancel |-> p.w.cancel]

TablesOf(m, placed, heads) ==
    [ waves |-> [i \in 0..(Cardinality(placed) - 1) |->
                   WaveEntry(m, CHOOSE q \in placed : q.id = i)],
      stars |-> [s \in 0..(Cardinality(heads) - 1) |->
                   StarEntry(CHOOSE q \in heads : q.starId = s)],
      waveId |-> [r \in 0..(Cardinality(placed) - 1) |->
                   (CHOOSE q \in placed : MeshRank(m, q.w.indices) = r).id],
      nWave |-> Cardinality(placed),
      nStar |-> Cardinality(heads) ]

FirstWaves(placed) == { p \in placed : p.w.indices = p.w.first }

SortedTables(m, placed) == TablesOf(m, placed, FirstWaves(placed))

\* The Wave and Star tables for mesh m, unit cell `cell`, group `name`.
MakeTables(m, cell, name) ==
    SortedTables(m, Placed({ WaveInfo(m, cell, GroupOps(name), k) :
                               k \in MeshPositions(m) }))

Empty == [i \in {} |-> 0]

(***************************************************************************)
(* Conversions between the symmetry-adapted and the DFT representation.    *)
(***************************************************************************)
Re(z) == z[1]

Im(z) == z[2]

Conj(z) == <<z[1], -z[2]>>

Mul(x, y) == <<x[1] * y[1] - x[2] * y[2], x[1] * y[2] + x[2] * y[1]>>

\* Slot of star s in an array of components: cancelled stars have none.
BasisId(s) == Cardinality({ t \in 0..(s - 1) : ~star(t).cancel })

\* Slot of wave i in a DFT array.
DftSlot(i) == MeshRank(mesh, wave(i).indicesDft)

\* Index in the Wave table of the wave -k, k being wave i.
PartnerId(i) == waveId_[MeshRank(mesh, Negate(mesh, wave(i).indicesDft))]

\* The second star of a pair given the amplitude of the first.
StarAmplitudeSameSign(c, s) ==
    CASE star(s).invertFlag = 0  -> <<c[Cardinality({ t \in 0..(s - 1) : ~star(t).cancel })], 0>>
      [] star(s).invertFlag = 1  -> <<c[Cardinality({ t \in 0..(s - 1) : ~star(t).cancel })],
                                      -c[Cardinality({ t \in 0..s : ~star(t).cancel })]>>
      [] star(s).invertFlag = -1 -> <<c[Cardinality({ t \in 0..(s - 2) : ~star(t).cancel })],
                                      -c[Cardinality({ t \in 0..(s - 1) : ~star(t).cancel })]>>

\* Complex amplitude of star s in the field with components c: the first
\* star of a pair carries the cosine, the second the sine combination.
StarAmplitude(c, s) ==
    CASE star(s).invertFlag = 0  -> <<c[BasisId(s)], 0>>
      [] star(s).invertFlag = 1  -> <<c[BasisId(s)], -c[BasisId(s + 1)]>>
      [] star(s).invertFlag = -1 -> <<c[BasisId(s - 1)], c[BasisId(s)]>>

\* The coefficient of the star written without the test for cancellation
\* and without the phase factor.
DirectDftNoCancelTest(c, i) == <<c[BasisId(wave(i).starId) % nBasis], 0>>

\* DFT coefficient written directly for wave i.
DirectDft(c, i) ==
    IF star(wave(i).starId).cancel THEN <<0, 0>>
    ELSE Mul(StarAmplitude(c, wave(i).starId), wave(i).coeff)

\* DFT coefficient of wave i: implicit waves are filled by conjugate
\* symmetry from the wave -k.
WaveDft(c, i) ==
    IF wave(i).implicit THEN Conj(DirectDft(c, PartnerId(i))) ELSE DirectDft(c, i)

\* The DFT array of the field with components c, by mesh rank.
ComponentsToDft(c) == [r \in 0..(nWave_ - 1) |-> WaveDft(c, waveId_[r])]

\* Contribution of wave i of the DFT array x to its star: the DFT
\* coefficient times the conjugate of the phase factor.
WaveTerm(x, i) == Mul(x[MeshRank(mesh, wave(i).indicesDft)], Conj(wave(i).coeff))

\* Sums over the waves lo..hi that are not implicit: of the real parts and
\* of the imaginary parts of their contributions, and their number.
SumRe(x, lo, hi) ==
    LET partial[i \in (lo - 1)..hi] ==
            IF i < lo THEN 0
            ELSE partial[i - 1] + (IF wave(i).implicit THEN 0 ELSE Re(WaveTerm(x, i)))
    IN  partial[hi]

SumIm(x, lo, hi) ==
    LET partial[i \in (lo - 1)..hi] ==
            IF i < lo THEN 0
            ELSE partial[i - 1] + (IF wave(i).implicit THEN 0 ELSE Im(WaveTerm(x, i)))
    IN  partial[hi]

\* The number of all waves lo..hi, implicit or not.
NumWavesInRange(lo, hi) == hi - lo + 1

NumStored(lo, hi) == Cardinality({ i \in lo..hi : ~wave(i).implicit })

\* Component of star s in the DFT array x.
StarComponent(x, s) ==
    CASE star(s).invertFlag = 0 ->
           SumRe(x, star(s).beginId, star(s).endId)
              \div NumStored(star(s).beginId, star(s).endId)
      [] star(s).invertFlag = 1 ->
           SumRe(x, star(s).beginId, star(s + 1).endId)
              \div NumStored(star(s).beginId, star(s + 1).endId)
      [] star(s).invertFlag = -1 ->
           (SumIm(x, star(s).beginId, star(s).endId)
              - SumIm(x, star(s - 1).beginId, star(s - 1).endId))
              \div NumStored(star(s - 1).beginId, star(s).endId)

\* The components of the field with DFT array x.
DftToComponents(x) ==
    [j \in 0..(nBasis - 1) |->
       StarComponent(x, CHOOSE s \in 0..(nStar_ - 1) :
                           ~star(s).cancel /\ BasisId(s) = j)]

\* Arrays of n coefficients a caller may hold: one nonzero entry, or a ramp.
CoefArrays(n) ==
    { [i \in 0..(n - 1) |-> IF i = j THEN MaxCoef ELSE 0] : j \in 0..(n - 1) }
    \cup { [i \in 0..(n - 1) |-> ((i * x) % (2 * MaxCoef + 1)) - MaxCoef] :
             x \in 1..MaxCoef }

(***************************************************************************)
(* Operations.                                                             *)
(***************************************************************************)
\* The tables take the place of the ones the object held.
setTables(t) ==
    /\ waves_' = t.waves
    /\ stars_' = t.stars
    /\ waveId_' = t.waveId
    /\ nWave_' = t.nWave
    /\ nStar_' = t.nStar

\* The tables the object holds.
Tables ==
    [waves |-> waves_, stars |-> stars_, waveId |-> waveId_, nWave |-> nWave_,
     nStar |-> nStar_]

\* The error with which Basis::makeBasis refuses a mesh or a unit cell.
MakeBasisError(m, cell) ==
    IF m[1] * m[2] = 0 THEN "DegenerateMesh"
    ELSE IF cell.lattice = "Null" THEN "MetricInconsistency"
    ELSE "none"

\* Effect of Basis::makeBasis(m, cell, name) on the Basis object.
basisMakeBasis(m, cell, name) ==
    IF MakeBasisError(m, cell) # "none"
    THEN /\ error' = MakeBasisError(m, cell)
         /\ UNCHANGED <<waves_, stars_, waveId_, nWave_, nStar_, isInitialized_>>
    ELSE /\ error' = "none"
         /\ setTables(MakeTables(m, cell, name))
         /\ isInitialized_' = TRUE

\* A call that returns without raising the error.
failsSilently(name, kind) ==
    /\ op' = name
    /\ error' = "none"
    /\ UNCHANGED <<mesh, unitCell, groupName, waves_, stars_, waveId_, nWave_,
                   nStar_, isInitialized_, components, dft, componentsIn, dftIn,
                   metricVars, accessVars, taskVars, domainVars, mixtureVars, sweepVars>>

\* A call of operation `name` that ends with error `kind`: it writes
\* nothing.
fails(name, kind) ==
    /\ op' = name
    /\ error' = kind
    /\ UNCHANGED <<mesh, unitCell, groupName, waves_, stars_, waveId_, nWave_,
                   nStar_, isInitialized_, components, dft, componentsIn, dftIn,
                   metricVars, accessVars, taskVars, domainVars, mixtureVars, sweepVars>>

\* makeBasis, were it to keep the tables of a basis that is already made.
makeBasisKeepsTables ==
    /\ pending = {}
    /\ IF isInitialized_
       THEN /\ error' = MakeBasisError(mesh, unitCell)
            /\ UNCHANGED <<waves_, stars_, waveId_, nWave_, nStar_, isInitialized_>>
       ELSE basisMakeBasis(mesh, unitCell, groupName)
    /\ components' = Empty
    /\ dft' = Empty
    /\ componentsIn' = Empty
    /\ dftIn' = Empty
    /\ op' = "makeBasis"
    /\ UNCHANGED <<mesh, unitCell, groupName>>
    /\ UNCHANGED <<metricVars, accessVars, taskVars, domainVars, mixtureVars, sweepVars>>

\* Basis::makeBasis(mesh, unitCell, groupName).  The caller runs it when no
\* conversion is in flight.
makeBasis ==
    /\ pending = {}
    /\ basisMakeBasis(mesh, unitCell, groupName)
    /\ components' = Empty
    /\ dft' = Empty
    /\ componentsIn' = Empty
    /\ dftIn' = Empty
    /\ op' = "makeBasis"
    /\ UNCHANGED <<mesh, unitCell, groupName>>
    /\ UNCHANGED <<metricVars, accessVars, taskVars, domainVars, mixtureVars, sweepVars>>

\* The caller allocates a components field holding c and a DFT field that
\* nothing has been written to.
allocateFields(c) ==
    /\ isInitialized_
    /\ pending = {}
    /\ components' = c
    /\ dft' = Empty
    /\ componentsIn' = Empty
    /\ dftIn' = Empty
    /\ op' = "allocate"
    /\ error' = "none"
    /\ UNCHANGED <<mesh, unitCell, groupName, waves_, stars_, waveId_, nWave_,
                   nStar_, isInitialized_>>
    /\ UNCHANGED <<metricVars, accessVars, taskVars, domainVars, mixtureVars, sweepVars>>

\* Basis::convertFieldComponentsToDft(components, dft)
convertFieldComponentsToDft ==
    IF ~isInitialized_ THEN fails("componentsToDft", "UninitializedBasis")
    ELSE
    /\ components # Empty
    /\ dft' = ComponentsToDft(components)
    /\ componentsIn' = components
    /\ op' = "componentsToDft"
    /\ error' = "none"
    /\ UNCHANGED <<mesh, unitCell, groupName, waves_, stars_, waveId_, nWave_,
                   nStar_, isInitialized_, components, dftIn>>
    /\ UNCHANGED <<metricVars, accessVars, taskVars, domainVars, mixtureVars, sweepVars>>

\* Basis::convertFieldDftToComponents(dft, components)
convertFieldDftToComponents ==
    IF ~isInitialized_ THEN fails("dftToComponents", "UninitializedBasis")
    ELSE
    /\ dft # Empty
    /\ components' = DftToComponents(dft)
    /\ dftIn' = dft
    /\ op' = "dftToComponents"
    /\ error' = "none"
    /\ UNCHANGED <<mesh, unitCell, groupName, waves_, stars_, waveId_, nWave_,
                   nStar_, isInitialized_, dft, componentsIn>>
    /\ UNCHANGED <<metricVars, accessVars, taskVars, domainVars, mixtureVars, sweepVars>>

\* update that builds the tables again for the new unit cell.
updateRebuilds(cell) ==
    IF ~isInitialized_ THEN fails("update", "UninitializedBasis")
    ELSE
    /\ cell.lattice = unitCell.lattice
    /\ cell # unitCell
    /\ unitCell' = cell
    /\ setTables(MakeTables(mesh, cell, groupName))
    /\ op' = "update"
    /\ error' = "none"
    /\ UNCHANGED <<mesh, groupName, isInitialized_,
                   components, dft, componentsIn, dftIn>>
    /\ UNCHANGED <<metricVars, accessVars, taskVars, domainVars, mixtureVars, sweepVars>>

\* Basis::update(unitCell), after the caller changed the parameters of the
\* unit cell: the squared norms are recomputed, the orbits are not rebuilt.
update(cell) ==
    IF ~isInitialized_ THEN fails("update", "UninitializedBasis")
    ELSE
    /\ cell.lattice = unitCell.lattice
    /\ cell # unitCell
    /\ unitCell' = cell
    /\ waves_' = [i \in 0..(nWave_ - 1) |->
                    [waves_[i] EXCEPT !.sqNorm = Ksq(mesh, cell, waves_[i].indicesDft)]]
    /\ op' = "update"
    /\ error' = "none"
    /\ UNCHANGED <<mesh, groupName, stars_, waveId_, nWave_, nStar_, isInitialized_,
                   components, dft, componentsIn, dftIn>>
    /\ UNCHANGED <<metricVars, accessVars, taskVars, domainVars, mixtureVars, sweepVars>>

\* Number of parameters of a unit cell of the given lattice system.
NParameter(lattice) == IF lattice = "Square" THEN 1 ELSE 2

\* Derivative of the squared norm of wavevector k with respect to parameter
\* n of the unit cell, as <<numerator, denominator>> in units of 4 pi^2:
\* the squared norm is (g1^2 + g2^2) / a^2 for a square cell and
\* g1^2 / a^2 + g2^2 / b^2 for a rectangular cell.
DksqOf(m, cell, n, k) ==
    LET g1 == ShiftToMinimum(k[1], m[1])
        g2 == ShiftToMinimum(k[2], m[2])
    IN  IF cell.lattice = "Square"
        THEN <<-2 * (g1 * g1 + g2 * g2), cell.a * cell.a * cell.a>>
        ELSE IF n = 1 THEN <<-2 * g1 * g1, cell.a * cell.a * cell.a>>
        ELSE <<-2 * g2 * g2, cell.b * cell.b * cell.b>>

\* Basis::makeDksq(unitCell): for each parameter of the unit cell and each
\* star, the derivative of the squared norm of the first wave of the star.
makeDksq ==
    IF ~isInitialized_ THEN fails("makeDksq", "UninitializedBasis")
    ELSE
    /\ dksq' = [n \in 1..NParameter(unitCell.lattice) |->
                  [s \in 0..(nStar_ - 1) |->
                      DksqOf(mesh, unitCell, n, wave(star(s).beginId).indicesDft)]]
    /\ op' = "makeDksq"
    /\ error' = "none"
    /\ UNCHANGED <<mesh, unitCell, groupName, waves_, stars_, waveId_, nWave_,
                   nStar_, isInitialized_, components, dft, componentsIn, dftIn>>
    /\ UNCHANGED <<accessVars, taskVars, domainVars, mixtureVars, sweepVars>>

\* No field has been allocated, no call has been made.
NoFields ==
    /\ components = Empty
    /\ dft = Empty
    /\ componentsIn = Empty
    /\ dftIn = Empty
    /\ error = "none"
    /\ dksq = Empty
    /\ result = "none"
    /\ pending = {}
    /\ writeCount = Empty

\* Basis::Basis(): no tables.
NoTables ==
    /\ waves_ = Empty
    /\ stars_ = Empty
    /\ waveId_ = Empty
    /\ nWave_ = 0
    /\ nStar_ = 0
    /\ isInitialized_ = FALSE

\* Domain::Domain()
NewDomain ==
    /\ lattice_ = "Null"
    /\ hasFileMaster_ = FALSE
    /\ domainIsInitialized_ = FALSE
    /\ group_ = ""
    /\ waveList_ = [isAllocated |-> FALSE, hasMinimumImages |-> FALSE, hasKSq |-> FALSE]
    /\ built = FALSE
    /\ calls = {}

\* MixtureTmpl::MixtureTmpl()
NewMixture ==
    /\ nMonomer_ = 0
    /\ nPolymer_ = 0
    /\ nSolvent_ = 0
    /\ nPieces_ = 0
    /\ polymers_ = << >>
    /\ solvents_ = 0

\* No LinearSweepParameter has been read and no System set up.
NoSweep ==
    /\ type_ = "none"
    /\ id_ = << >>
    /\ initial_ = 0
    /\ change_ = 0
    /\ hasInitial = FALSE
    /\ system = << >>
    /\ sweepS = 0

\* Basis::Basis(), with the mesh, unit cell and group name the caller holds.
Init ==
    /\ mesh \in Meshes
    /\ unitCell \in UnitCells
    /\ groupName \in GroupNames
    /\ Compatible(mesh, unitCell, groupName)
    /\ NoTables
    /\ NoFields
    /\ NewDomain
    /\ NewMixture
    /\ NoSweep
    /\ op = "construct"

AllocateStep == \E c \in CoefArrays(nBasis) : allocateFields(c)

UpdateStep == \E cell \in UnitCells : update(cell)

Next ==
    \/ makeBasis
    \/ AllocateStep
    \/ convertFieldComponentsToDft
    \/ convertFieldDftToComponents
    \/ UpdateStep

Spec == Init /\ [][Next]_vars

\* A Basis and the operations on its metric: the caller changes the unit
\* cell parameters and calls update, or calls makeDksq.  The caller
\* allocates no field, and calls the conversions all the same.
MetricNext ==
    \/ makeBasis
    \/ UpdateStep
    \/ makeDksq
    \/ convertFieldComponentsToDft
    \/ convertFieldDftToComponents

MetricSpec == Init /\ [][MetricNext]_vars

(***************************************************************************)
(* The accessors wave(i) and star(i), as calls.  They index waves_ and     *)
(* stars_ without a test of their own; an index outside the array is       *)
(* caught by the containers only in a build with assertions, and reads     *)
(* whatever lies there in a build without.                                 *)
(***************************************************************************)
\* A call of an accessor with index i into an array of n entries.
access(name, i, n) ==
    /\ op' = name
    /\ IF 0 <= i /\ i < n
       THEN /\ error' = "none"
            /\ result' = "entry"
       ELSE \/ /\ error' = "IndexOutOfRange"
               /\ result' = "none"
            \/ /\ error' = "none"
               /\ result' = "indeterminate"
    /\ UNCHANGED <<mesh, unitCell, groupName, waves_, stars_, waveId_, nWave_,
                   nStar_, isInitialized_, components, dft, componentsIn, dftIn,
                   metricVars, taskVars, domainVars, mixtureVars, sweepVars>>

\* Basis::wave(int i), called.
waveCall(i) == access("wave", i, nWave_)

\* Basis::star(int i), called.
starCall(i) == access("star", i, nStar_)

WaveStep == \E i \in (-1)..(nWave_ + 1) : waveCall(i)

StarStep == \E i \in (-1)..(nStar_ + 1) : starCall(i)

AccessNext == makeBasis \/ WaveStep \/ StarStep

AccessSpec == Init /\ [][AccessNext]_vars

(***************************************************************************)
(* convertFieldComponentsToDft as one task per wave, run in any order.     *)
(* The task of a wave that is not implicit writes the slot of its wave     *)
(* and, when the wave -k is implicit, the slot of -k by conjugate          *)
(* symmetry; the task of an implicit wave writes nothing.                  *)
(***************************************************************************)
\* Slots written by every task, the wave -k being implicit or not.
TaskSlotsBoth(i) == { DftSlot(i), DftSlot(PartnerId(i)) }

\* Slots of the DFT array that the task of wave i writes.
TaskSlots(i) ==
    IF wave(i).implicit THEN {}
    ELSE IF wave(PartnerId(i)).implicit THEN { DftSlot(i), DftSlot(PartnerId(i)) }
    ELSE { DftSlot(i) }

\* What the task of wave i writes to slot r, of the field with components c.
TaskValue(c, i, r) ==
    IF r = DftSlot(i) THEN DirectDft(c, i) ELSE Conj(DirectDft(c, i))

\* The tasks of a conversion are dispatched, one per wave; nothing has been
\* written to the DFT field.
startTasks ==
    /\ isInitialized_
    /\ components # Empty
    /\ pending = {}
    /\ pending' = 0..(nWave_ - 1)
    /\ writeCount' = [r \in 0..(nWave_ - 1) |-> 0]
    /\ dft' = Empty
    /\ componentsIn' = components
    /\ op' = "startTasks"
    /\ error' = "none"
    /\ UNCHANGED <<mesh, unitCell, groupName, waves_, stars_, waveId_, nWave_,
                   nStar_, isInitialized_, components, dftIn, metricVars,
                   accessVars, domainVars, mixtureVars, sweepVars>>

\* The task of wave i runs.
task(i) ==
    /\ i \in pending
    /\ pending' = pending \ {i}
    /\ dft' = [r \in DOMAIN dft \cup TaskSlots(i) |->
                IF r \in TaskSlots(i) THEN TaskValue(components, i, r) ELSE dft[r]]
    /\ writeCount' = [r \in DOMAIN writeCount |->
                        IF r \in TaskSlots(i) THEN writeCount[r] + 1 ELSE writeCount[r]]
    /\ op' = "task"
    /\ error' = "none"
    /\ UNCHANGED <<mesh, unitCell, groupName, waves_, stars_, waveId_, nWave_,
                   nStar_, isInitialized_, components, componentsIn, dftIn,
                   metricVars, accessVars, domainVars, mixtureVars, sweepVars>>

TaskStep == \E i \in pending : task(i)

\* A basis whose conversion is run as tasks has at most MaxTasks waves.
TaskInit == Init /\ mesh[1] * mesh[2] <= MaxTasks

TaskNext == makeBasis \/ AllocateStep \/ startTasks \/ TaskStep

TaskSpec == TaskInit /\ [][TaskNext]_vars

(***************************************************************************)
(* The Domain: it owns mesh_, unitCell_, basis_ and waveList_, here the    *)
(* variables mesh, unitCell, the Basis and waveList_.                      *)
(***************************************************************************)
\* UnitCell<D>(): no lattice, no parameters.
NullCell == [lattice |-> "Null", a |-> 0, b |-> 0]

\* UnitCell::set(lattice): the lattice system without parameters.
LatticeOnly(lattice) == [lattice |-> lattice, a |-> 0, b |-> 0]

\* UnitCell::isInitialized()
IsInitializedCell(cell) == cell.a > 0

\* The parameters of a unit cell, as passed to setUnitCell.
Parameters(cell) == IF cell.lattice = "Square" THEN <<cell.a>> ELSE <<cell.a, cell.b>>

\* UnitCell::setParameters(parameters)
WithParameters(cell, parameters) ==
    [lattice |-> cell.lattice,
     a |-> parameters[1],
     b |-> IF cell.lattice = "Square" THEN parameters[1] ELSE parameters[2]]

\* Meshes a Domain is given: Mesh<D>() with no grid points, or a grid.
DomainMeshes == { <<0, 0>>, <<MaxDomainDim, MaxDomainDim>> }

\* Unit cells a Domain is given.
DomainCells == UnitCells \cup { NullCell }

Lattices == { "Null", "Square", "Rectangular" }

\* Group names a Domain is given.
DomainGroupNames == { "I", "p2" }

\* The operations of group_: those of the identity group until a group has
\* been read.
DomainGroup == IF group_ = "" THEN "I" ELSE group_

\* What the operations of the Domain leave alone.
domainFrame ==
    UNCHANGED <<components, dft, componentsIn, dftIn, metricVars, accessVars,
                taskVars, mixtureVars, sweepVars>>

\* An operation of the Domain that throws before it has changed anything.
domainFails(name) ==
    /\ op' = name
    /\ error' = "Exception"
    /\ built' = FALSE
    /\ calls' = {}
    /\ UNCHANGED <<mesh, unitCell, groupName, waves_, stars_, waveId_, nWave_,
                   nStar_, isInitialized_, lattice_, hasFileMaster_,
                   domainIsInitialized_, group_, waveList_>>
    /\ domainFrame

\* Domain::makeBasis() without its checks of the mesh and the unit cell.
MakeBasisOutcomeNoChecks(m, cell, init, wl) ==
    IF ~wl.isAllocated
    THEN [ok |-> FALSE, build |-> ~init, waveList |-> wl]
    ELSE [ok |-> TRUE, build |-> ~init,
          waveList |-> [wl EXCEPT !.hasMinimumImages = TRUE]]

\* Domain::makeBasis() with mesh_ = m, unitCell_ = cell, a basis that is
\* initialized or not (init) and WaveList wl: does it return (ok), does it
\* call Basis::makeBasis (build), and the WaveList it leaves.
MakeBasisOutcome(m, cell, init, wl) ==
    IF \/ m[1] * m[2] = 0
       \/ cell.lattice = "Null"
       \/ ~IsInitializedCell(cell)
    THEN [ok |-> FALSE, build |-> FALSE, waveList |-> wl]
    ELSE IF ~wl.isAllocated
    THEN [ok |-> FALSE, build |-> ~init, waveList |-> wl]
    ELSE [ok |-> TRUE, build |-> ~init,
          waveList |-> [wl EXCEPT !.hasMinimumImages = TRUE]]

\* The call of Basis::makeBasis in an operation of the Domain, if it makes
\* one (build): for mesh m, unit cell `cell` and the group named g.
domainBuild(build, m, cell, g) ==
    /\ built' = build
    /\ IF build
       THEN /\ setTables(MakeTables(m, cell, g))
            /\ isInitialized_' = TRUE
       ELSE UNCHANGED <<waves_, stars_, waveId_, nWave_, nStar_, isInitialized_>>

\* Domain::setFileMaster(fileMaster)
setFileMaster ==
    /\ hasFileMaster_' = TRUE
    /\ op' = "setFileMaster"
    /\ error' = "none"
    /\ built' = FALSE
    /\ calls' = {}
    /\ UNCHANGED <<mesh, unitCell, groupName, waves_, stars_, waveId_, nWave_,
                   nStar_, isInitialized_, lattice_, domainIsInitialized_, group_,
                   waveList_>>
    /\ domainFrame

\* Domain::readParameters(in), the parameter file holding mesh m, lattice
\* system `lattice` and group name `name`.
readParameters(m, lattice, name) ==
    IF ~hasFileMaster_ THEN domainFails("readParameters")
    ELSE IF m[1] * m[2] = 0
    THEN /\ mesh' = m
         /\ op' = "readParameters"
         /\ error' = "Exception"
         /\ built' = FALSE
         /\ calls' = {}
         /\ UNCHANGED <<unitCell, groupName, waves_, stars_, waveId_, nWave_,
                        nStar_, isInitialized_, lattice_, hasFileMaster_,
                        domainIsInitialized_, group_, waveList_>>
         /\ domainFrame
    ELSE IF lattice = "Null"
    THEN /\ mesh' = m
         /\ lattice_' = lattice
         /\ unitCell' = LatticeOnly(lattice)
         /\ op' = "readParameters"
         /\ error' = "Exception"
         /\ built' = FALSE
         /\ calls' = {}
         /\ UNCHANGED <<groupName, waves_, stars_, waveId_, nWave_, nStar_,
                        isInitialized_, hasFileMaster_, domainIsInitialized_,
                        group_, waveList_>>
         /\ domainFrame
    ELSE /\ mesh' = m
         /\ lattice_' = lattice
         /\ unitCell' = LatticeOnly(lattice)
         /\ waveList_' = [waveList_ EXCEPT !.isAllocated = TRUE]
         /\ groupName' = name
         /\ group_' = name
         /\ domainBuild(IsInitializedCell(LatticeOnly(lattice)), m, LatticeOnly(lattice), name)
         /\ calls' = IF IsInitializedCell(LatticeOnly(lattice))
                     THEN {"Basis::makeBasis"} ELSE {}
         /\ domainIsInitialized_' = TRUE
         /\ op' = "readParameters"
         /\ error' = "none"
         /\ UNCHANGED hasFileMaster_
         /\ domainFrame

\* Domain::readRGridFieldHeader(in, nMonomer), the header holding unit cell
\* `cell`, group name `name` and grid dimensions m.
readRGridFieldHeader(cell, name, m) ==
    /\ unitCell' = cell
    /\ groupName' = name
    /\ mesh' = m
    /\ group_' = name
    /\ basisMakeBasis(m, cell, name)
    /\ built' = (MakeBasisError(m, cell) = "none")
    /\ calls' = {"Basis::makeBasis"}
    /\ domainIsInitialized_' = (MakeBasisError(m, cell) = "none" \/ domainIsInitialized_)
    /\ op' = "readRGridFieldHeader"
    /\ UNCHANGED <<lattice_, hasFileMaster_, waveList_>>
    /\ domainFrame

\* The outcomes of WaveList::computeKSq and computedKSq on WaveList wl: the
\* squared norms are computed; on a WaveList that is not allocated or has no
\* minimum images the call may as well fail.
ComputeKSqOutcomes(wl) ==
    { [ok |-> TRUE, waveList |-> [wl EXCEPT !.hasKSq = TRUE]] }
    \cup (IF wl.isAllocated /\ wl.hasMinimumImages THEN {}
          ELSE { [ok |-> FALSE, waveList |-> wl] })

\* The end of the three overloads of Domain::setUnitCell, unitCell_ having
\* been set to `cell`: make the basis if there is none (with outcome o), then
\* compute the squared norms of the WaveList.
setUnitCellTail(cell, o) ==
    /\ unitCell' = cell
    /\ domainBuild(o.build, mesh, cell, DomainGroup)
    /\ IF o.ok
       THEN /\ calls' = (IF o.build THEN {"Basis::makeBasis"} ELSE {})
                            \cup {"WaveList::computeKSq"}
            /\ \E k \in ComputeKSqOutcomes(o.waveList) :
                  /\ waveList_' = k.waveList
                  /\ error' = IF k.ok THEN "none" ELSE "Exception"
       ELSE /\ calls' = IF o.build THEN {"Basis::makeBasis"} ELSE {}
            /\ waveList_' = o.waveList
            /\ error' = "Exception"
    /\ UNCHANGED <<mesh, groupName, hasFileMaster_, domainIsInitialized_, group_>>
    /\ domainFrame

\* makeBasis() called by setUnitCell whether the basis is initialized or
\* not, and building it anew.
MakeBasisAlways(cell) == MakeBasisOutcome(mesh, cell, FALSE, waveList_)

\* What the call `if (!basis_.isInitialized()) makeBasis();` does.
MakeBasisIfNeeded(cell) ==
    IF isInitialized_
    THEN [ok |-> TRUE, build |-> FALSE, waveList |-> waveList_]
    ELSE MakeBasisOutcome(mesh, cell, isInitialized_, waveList_)

\* setUnitCell(unitCell) without the comparison of the lattice systems.
setUnitCellAnyLattice(cell) ==
    /\ lattice_' = cell.lattice
    /\ op' = "setUnitCell"
    /\ setUnitCellTail(cell, MakeBasisIfNeeded(cell))

\* Domain::setUnitCell(unitCell)
setUnitCell(cell) ==
    IF lattice_ # "Null" /\ lattice_ # cell.lattice THEN domainFails("setUnitCell")
    ELSE /\ lattice_' = cell.lattice
         /\ op' = "setUnitCell"
         /\ setUnitCellTail(cell, MakeBasisIfNeeded(cell))

\* Domain::setUnitCell(lattice, parameters)
setUnitCellLattice(lattice, parameters) ==
    IF lattice_ # "Null" /\ lattice_ # lattice THEN domainFails("setUnitCellLattice")
    ELSE /\ lattice_' = lattice
         /\ op' = "setUnitCellLattice"
         /\ setUnitCellTail(WithParameters(LatticeOnly(lattice), parameters),
                            MakeBasisIfNeeded(WithParameters(LatticeOnly(lattice), parameters)))

\* Domain::setUnitCell(parameters)
setUnitCellParameters(parameters) ==
    IF \/ unitCell.lattice = "Null"
       \/ NParameter(unitCell.lattice) # Len(parameters)
    THEN domainFails("setUnitCellParameters")
    ELSE /\ op' = "setUnitCellParameters"
         /\ UNCHANGED lattice_
         /\ setUnitCellTail(WithParameters(unitCell, parameters),
                            MakeBasisIfNeeded(WithParameters(unitCell, parameters)))

\* Domain::makeBasis()
domainMakeBasis ==
    /\ domainBuild(MakeBasisOutcome(mesh, unitCell, isInitialized_, waveList_).build,
                   mesh, unitCell, DomainGroup)
    /\ waveList_' = MakeBasisOutcome(mesh, unitCell, isInitialized_, waveList_).waveList
    /\ error' = IF MakeBasisOutcome(mesh, unitCell, isInitialized_, waveList_).ok
                THEN "none" ELSE "Exception"
    /\ calls' = IF MakeBasisOutcome(mesh, unitCell, isInitialized_, waveList_).build
                THEN {"Basis::makeBasis"} ELSE {}
    /\ op' = "Domain::makeBasis"
    /\ UNCHANGED <<mesh, unitCell, groupName, lattice_, hasFileMaster_,
                   domainIsInitialized_, group_>>
    /\ domainFrame

\* Domain::Domain()
DomainInit ==
    /\ mesh = <<0, 0>>
    /\ unitCell = NullCell
    /\ groupName = ""
    /\ NoTables
    /\ NoFields
    /\ NewDomain
    /\ NewMixture
    /\ NoSweep
    /\ op = "construct"

ReadParametersStep ==
    \E m \in DomainMeshes : \E lattice \in Lattices : \E name \in DomainGroupNames :
        readParameters(m, lattice, name)

ReadHeaderStep ==
    \E cell \in DomainCells : \E name \in DomainGroupNames : \E m \in DomainMeshes :
        readRGridFieldHeader(cell, name, m)

SetUnitCellStep == \E cell \in DomainCells : setUnitCell(cell)

SetUnitCellLatticeStep ==
    \E cell \in UnitCells : setUnitCellLattice(cell.lattice, Parameters(cell))

SetUnitCellParametersStep ==
    \E shape \in UnitCells : setUnitCellParameters(Parameters(shape))

DomainNext ==
    \/ setFileMaster
    \/ ReadParametersStep
    \/ ReadHeaderStep
    \/ SetUnitCellStep
    \/ SetUnitCellLatticeStep
    \/ SetUnitCellParametersStep
    \/ domainMakeBasis

DomainSpec == DomainInit /\ [][DomainNext]_vars

(***************************************************************************)
(* MixtureTmpl: the monomer types, polymers and solvents of a mixture.     *)
(* A polymer is held by its number of blocks.                              *)
(***************************************************************************)
\* What the operations of the Mixture leave alone.
mixtureFrame ==
    UNCHANGED <<mesh, unitCell, groupName, waves_, stars_, waveId_, nWave_, nStar_,
                isInitialized_, components, dft, componentsIn, dftIn, metricVars,
                taskVars, domainVars, sweepVars>>

\* The pieces counted without the solvents.
NPiecesOfBlocks(nSolvent, blocks, n) ==
    LET count[i \in 0..n] == IF i = 0 THEN 0 ELSE count[i - 1] + blocks[i]
    IN  count[n]

\* nPieces_ after the loop over the first n polymers: it starts from
\* nSolvent_ and grows by nBlock() of each polymer.
NPieces(nSolvent, blocks, n) ==
    LET count[i \in 0..n] == IF i = 0 THEN nSolvent ELSE count[i - 1] + blocks[i]
    IN  count[n]

\* MixtureTmpl::readParameters(in), the file holding nMonomer, nPolymer,
\* nSolvent if hasNSolvent, and polymers with blocks[i] blocks each; ids
\* tells whether the monomer ids of the blocks are all within 0..nMonomer-1
\* ("inRange"), or one is nMonomer or more ("tooLarge"), or one is
\* negative ("negative").
mixtureReadParameters(nMonomer, nPolymer, hasNSolvent, nSolvent, blocks, ids) ==
    /\ nMonomer_ = 0
    /\ nMonomer_' = nMonomer
    /\ nPolymer_' = nPolymer
    /\ op' = "Mixture::readParameters"
    /\ result' = "none"
    /\ IF ~(nPolymer > 0)
       THEN /\ error' = "Exception"
            /\ UNCHANGED <<nSolvent_, nPieces_, polymers_, solvents_>>
       ELSE /\ nSolvent_' = IF hasNSolvent THEN nSolvent ELSE 0
            /\ polymers_' = blocks
            /\ nPieces_' = NPieces(IF hasNSolvent THEN nSolvent ELSE 0, blocks, nPolymer)
            /\ \/ /\ ids = "tooLarge" \/ ids = "negative"
                  /\ error' = (IF ids = "tooLarge" THEN "Exception" ELSE "IndexOutOfRange")
                  /\ UNCHANGED solvents_
               \/ /\ ids = "inRange" \/ ids = "negative"
                  /\ error' = "none"
                  /\ solvents_' = IF hasNSolvent /\ nSolvent > 0 THEN nSolvent ELSE solvents_
    /\ mixtureFrame

\* monomer(id), polymer(id) or solvent(id): the check `id < n`, then the
\* element id of an array of `capacity` elements.
mixtureAccess(name, id, n, capacity) ==
    /\ op' = name
    /\ IF ~(id < n)
       THEN /\ error' = "Exception"
            /\ result' = "none"
       ELSE IF 0 <= id /\ id < capacity
       THEN /\ error' = "none"
            /\ result' = "entry"
       ELSE \/ /\ error' = "IndexOutOfRange"
               /\ result' = "none"
            \/ /\ error' = "none"
               /\ result' = "indeterminate"
    /\ UNCHANGED mixtureVars
    /\ mixtureFrame

\* MixtureTmpl::monomer(int id)
monomerCall(id) == mixtureAccess("monomer", id, nMonomer_, nMonomer_)

\* MixtureTmpl::polymer(int id)
polymerCall(id) == mixtureAccess("polymer", id, nPolymer_, Len(polymers_))

\* MixtureTmpl::solvent(int id)
solventCall(id) == mixtureAccess("solvent", id, nSolvent_, solvents_)

\* The ids that callers pass to the accessors.
SpeciesIds == (-1)..MaxSpecies

MixtureReadStep ==
    \E nMonomer \in 1..MaxSpecies : \E nPolymer \in 0..MaxSpecies :
    \E hasNSolvent \in BOOLEAN : \E nSolvent \in 0..MaxSpecies :
    \E blocks \in [1..nPolymer -> 1..MaxSpecies] :
    \E ids \in {"inRange", "tooLarge", "negative"} :
        mixtureReadParameters(nMonomer, nPolymer, hasNSolvent, nSolvent, blocks, ids)

MonomerStep == \E id \in SpeciesIds : monomerCall(id)

PolymerStep == \E id \in SpeciesIds : polymerCall(id)

SolventStep == \E id \in SpeciesIds : solventCall(id)

\* MixtureTmpl::MixtureTmpl()
MixtureInit == DomainInit

MixtureNext == MixtureReadStep \/ MonomerStep \/ PolymerStep \/ SolventStep

MixtureSpec == MixtureInit /\ [][MixtureNext]_vars

(***************************************************************************)
(* LinearSweepParameter: type_, id_, initial_, change_ and the System it   *)
(* points to.  The System holds MaxSpecies polymers of MaxSpecies blocks,  *)
(* MaxSpecies solvents and MaxSpecies monomer types; `system` maps each of *)
(* its parameters to its value.  The sweep coordinate s is held by its     *)
(* numerator over SweepSteps, and change_ is a multiple of SweepSteps, so  *)
(* that initial_ + s * change_ is an integer.                              *)
(***************************************************************************)
\* What the operations of the LinearSweepParameter leave alone.
sweepFrame ==
    UNCHANGED <<mesh, unitCell, groupName, waves_, stars_, waveId_, nWave_, nStar_,
                isInitialized_, components, dft, componentsIn, dftIn, metricVars,
                taskVars, domainVars, mixtureVars>>

\* Identifiers of the polymers, blocks, solvents and monomer types.
Species == 0..(MaxSpecies - 1)

\* First identifier of a phi or mu parameter: polymer (0), solvent (1), or
\* a value that is neither.
SpeciesFlags == 0..2

\* Monomer type of block b of polymer p.
MonomerIdOfBlock(p, b) == (p + b) % MaxSpecies

\* The parameters of the System: block lengths, chi, statistical segment
\* lengths of the monomers and of the blocks, phi and mu of the polymers
\* (0) and of the solvents (1).
SystemKeys ==
    { <<t, i, j>> : t \in {"block", "chi", "blockKuhn"}, i \in Species, j \in Species }
    \cup { <<"kuhn", i, 0>> : i \in Species }
    \cup { <<t, f, i>> : t \in {"phi", "mu"}, f \in {0, 1}, i \in Species }

\* The parameter types that readParamType accepts, and their number of
\* identifiers.
SweepTypes == {"block", "chi", "kuhn", "phi", "mu"}

nID(type) == IF type = "kuhn" THEN 1 ELSE 2

\* The identifiers that a parameter file can give for a type.
SweepIds(type) ==
    IF type = "kuhn" THEN { <<i>> : i \in Species }
    ELSE IF type \in {"phi", "mu"}
    THEN { <<f, i>> : f \in SpeciesFlags, i \in Species }
    ELSE { <<i, j>> : i \in Species, j \in Species }

\* id(i), 0-based.
sweepId(i) == id_[i + 1]

\* Does get_() or set_(newVal) throw?
sweepThrows ==
    \/ type_ = "solvent"
    \/ type_ \in {"phi", "mu"} /\ sweepId(0) \notin {0, 1}

\* The parameter of the System that get_() reads and set_(newVal) writes.
sweepKey ==
    IF type_ = "kuhn" THEN <<"kuhn", sweepId(0), 0>> ELSE <<type_, sweepId(0), sweepId(1)>>

\* get_(), when it does not throw.
get_ == system[sweepKey]

\* The System after set_(newVal), when it does not throw: for type Kuhn
\* the blocks of that monomer type are given the new length too.
set_(newVal) ==
    [k \in SystemKeys |->
        IF k = sweepKey THEN newVal
        ELSE IF /\ type_ = "kuhn"
                /\ k[1] = "blockKuhn"
                /\ MonomerIdOfBlock(k[2], k[3]) = sweepId(0)
             THEN newVal
             ELSE system[k]]

\* current()
current == get_

\* s * change_, for s = n / SweepSteps.
Scaled(n, change) == (n * change) \div SweepSteps

\* operator >> (in, param): readParamType, then the identifiers, then
\* change_.  `name` is the type read, in lower case.
sweepRead(name, ids, change) ==
    /\ type_ = "none"
    /\ op' = "LinearSweepParameter::read"
    /\ IF name = "solvent"
       THEN /\ type_' = "solvent"
            /\ error' = "Exception"
            /\ UNCHANGED <<id_, change_>>
       ELSE IF name \notin SweepTypes
       THEN /\ error' = "Exception"
            /\ UNCHANGED <<type_, id_, change_>>
       ELSE /\ ids \in SweepIds(name)
            /\ Len(ids) = nID(name)
            /\ type_' = name
            /\ id_' = ids
            /\ change_' = change
            /\ error' = "none"
    /\ UNCHANGED <<initial_, hasInitial, system, sweepS, result>>
    /\ sweepFrame

\* The values that a parameter of the System has before a sweep.
PreSweepValues == 1..(MaxValue + MaxSpecies)

\* getInitial(), called on a System whose parameter has a pre-sweep value.
sweepGetInitial ==
    /\ type_ # "none"
    /\ ~sweepThrows => get_ \in PreSweepValues
    /\ op' = "LinearSweepParameter::getInitial"
    /\ IF sweepThrows
       THEN /\ error' = "Exception"
            /\ UNCHANGED <<initial_, hasInitial>>
       ELSE /\ initial_' = get_
            /\ hasInitial' = TRUE
            /\ error' = "none"
    /\ UNCHANGED <<type_, id_, change_, system, sweepS, result>>
    /\ sweepFrame

\* update(s) that adds s * change_ to the current value.
sweepUpdateAccumulates(n) ==
    /\ type_ # "none"
    /\ op' = "LinearSweepParameter::update"
    /\ IF sweepThrows
       THEN /\ error' = "Exception"
            /\ UNCHANGED <<system, sweepS>>
       ELSE /\ system' = set_(get_ + Scaled(n, change_))
            /\ sweepS' = n
            /\ error' = "none"
    /\ UNCHANGED <<type_, id_, change_, initial_, hasInitial, result>>
    /\ sweepFrame

\* update(s), for s = n / SweepSteps.  initial_ holds the value stored by
\* getInitial, or any value when getInitial has not stored one.
sweepUpdate(n) ==
    /\ type_ # "none"
    /\ op' = "LinearSweepParameter::update"
    /\ IF sweepThrows
       THEN /\ error' = "Exception"
            /\ UNCHANGED <<system, sweepS>>
       ELSE /\ \E init \in (IF hasInitial THEN {initial_} ELSE 0..MaxValue) :
                   system' = set_(init + Scaled(n, change_))
            /\ sweepS' = n
            /\ error' = "none"
    /\ UNCHANGED <<type_, id_, change_, initial_, hasInitial, result>>
    /\ sweepFrame

SweepChanges == { c * SweepSteps : c \in (-MaxChange)..MaxChange }

SweepReadStep ==
    \E name \in SweepTypes \cup {"solvent", "other"} : \E change \in SweepChanges :
        \E ids \in (IF name \in SweepTypes THEN SweepIds(name) ELSE {<< >>}) :
            sweepRead(name, ids, change)

SweepUpdateStep == \E n \in 0..SweepSteps : sweepUpdate(n)

\* LinearSweepParameter(System<D>& system), the System holding its
\* parameters from the parameter file.
SweepInit ==
    /\ mesh = <<0, 0>>
    /\ unitCell = NullCell
    /\ groupName = ""
    /\ NoTables
    /\ NoFields
    /\ NewDomain
    /\ NewMixture
    /\ op = "construct"
    /\ type_ = "none"
    /\ id_ = << >>
    /\ initial_ = 0
    /\ change_ = 0
    /\ hasInitial = FALSE
    /\ sweepS = 0
    /\ \E v \in 1..MaxValue : system = [k \in SystemKeys |-> v + k[2]]
    /\ \A k \in SystemKeys : system[k] \in PreSweepValues

SweepNext == SweepReadStep \/ sweepGetInitial \/ SweepUpdateStep

SweepSpec == SweepInit /\ [][SweepNext]_vars

(***************************************************************************)
(* Properties of the tables that makeBasis builds.                         *)
(***************************************************************************)
StarIds == 0..(nStar - 1)

WaveIds == 0..(nWave - 1)

\* Sum of star(s).size over all stars.
TotalStarSize ==
    LET partial[s \in (-1)..(nStar - 1)] ==
            IF s < 0 THEN 0 ELSE partial[s - 1] + star(s).size
    IN  partial[nStar - 1]

\* The waves of the Wave table that name star s as their star.
WavesOfStar(s) == { i \in WaveIds : wave(i).starId = s }

\* The wavevectors of star s, and their images under inversion.
VectorsOfStar(s) == { wave(i).indicesDft : i \in WavesOfStar(s) }

NegatedVectorsOfStar(s) == { Negate(mesh, wave(i).indicesDft) : i \in WavesOfStar(s) }

\* Characteristic wave of star s: its first wave for invertFlag 0 or +1,
\* its last wave for invertFlag -1.
CharacteristicWave(s) ==
    IF star(s).invertFlag = -1 THEN wave(star(s).endId).indicesDft
    ELSE wave(star(s).beginId).indicesDft

\* Squared norm of the waves of star s.
StarSqNorm(s) == wave(star(s).beginId).sqNorm

C2_ContiguousBlocks ==
    isInitialized_ =>
        /\ \A s \in StarIds :
              /\ WavesOfStar(s) = star(s).beginId..star(s).endId
              /\ Cardinality(WavesOfStar(s)) = star(s).size
        /\ \A s \in StarIds : \A t \in StarIds :
              s # t => (star(s).beginId..star(s).endId)
                          \cap (star(t).beginId..star(t).endId) = {}

\* A basis with a star of four waves that is not the first of the table.
C2_Witness ==
    /\ isInitialized_
    /\ \E s \in StarIds : star(s).size = 4 /\ star(s).beginId > 0

\* C5: after makeBasis, for every wave w of a star with invertFlag = 0,
\* the wave with the negated indices (modulo the mesh) is in the same star.
C5_OrbitClosure ==
    isInitialized_ =>
        \A i \in WaveIds :
            star(wave(i).starId).invertFlag = 0 =>
                \E j \in WaveIds : /\ wave(j).indicesDft = Negate(mesh, wave(i).indicesDft)
                                   /\ wave(j).starId = wave(i).starId

\* A basis of a group without inversion that has a closed star of two
\* waves and a star that is not closed.
C5_Witness ==
    /\ isInitialized_
    /\ \E s \in StarIds : star(s).invertFlag = 0 /\ star(s).size = 2
    /\ \E s \in StarIds : star(s).invertFlag = 1

\* C6: after makeBasis every star with invertFlag = +1 is directly followed
\* by a star with invertFlag = -1, every star with invertFlag = -1 directly
\* follows a star with invertFlag = +1, and the wavevectors of the second
\* are exactly the negated wavevectors of the first.
C6_PairsAdjacent ==
    isInitialized_ =>
        \A s \in StarIds :
            /\ star(s).invertFlag = 1 =>
                  /\ s + 1 \in StarIds
                  /\ star(s + 1).invertFlag = -1
                  /\ VectorsOfStar(s + 1) = NegatedVectorsOfStar(s)
            /\ star(s).invertFlag = -1 =>
                  /\ s - 1 \in StarIds
                  /\ star(s - 1).invertFlag = 1

\* A basis with two pairs of stars of equal squared norm, so that the order
\* of equal norms decides which stars are adjacent.
C6_Witness ==
    /\ isInitialized_
    /\ \E s \in StarIds : \E t \in StarIds :
          /\ s + 1 < t
          /\ star(s).invertFlag = 1 /\ star(t).invertFlag = 1
          /\ StarSqNorm(s) = StarSqNorm(t)

C8_WavesDescending ==
    isInitialized_ =>
        \A i \in WaveIds : \A j \in WaveIds :
            (i < j /\ wave(i).starId = wave(j).starId)
            => LexGreater(wave(i).indicesDft, wave(j).indicesDft)

\* A basis with a star of four waves, two of which differ only in the
\* second index.
C8_Witness ==
    /\ isInitialized_
    /\ \E i \in WaveIds :
          /\ i + 1 \in WaveIds
          /\ wave(i).starId = wave(i + 1).starId
          /\ wave(i).indicesDft[1] = wave(i + 1).indicesDft[1]
          /\ star(wave(i).starId).size = 4

\* C9: with the group that holds only the identity every star has one
\* wave, nStar() = nWave(), and no star is cancelled.
C9_IdentityGroup ==
    (isInitialized_ /\ groupName = "I") =>
        /\ nStar = nWave
        /\ \A s \in StarIds : star(s).size = 1 /\ ~star(s).cancel

\* The basis of the identity group on a mesh of four by four points.
C9_Witness == isInitialized_ /\ groupName = "I" /\ mesh = <<4, 4>>

\* C10: after makeBasis the wavevector with all indices zero is in the
\* Wave table, it is the only wave of its star, and that star has
\* invertFlag = 0 and is not cancelled.
C10_OriginStar ==
    isInitialized_ =>
        /\ \E i \in WaveIds : wave(i).indicesDft = <<0, 0>>
        /\ \A i \in WaveIds :
              wave(i).indicesDft = <<0, 0>> =>
                  /\ star(wave(i).starId).size = 1
                  /\ star(wave(i).starId).beginId = i
                  /\ star(wave(i).starId).invertFlag = 0
                  /\ ~star(wave(i).starId).cancel

\* A basis of a group whose operations cancel some stars and leave some
\* stars open under inversion.
C10_Witness ==
    /\ isInitialized_
    /\ nBasis < nStar
    /\ \E s \in StarIds : star(s).invertFlag = 1

BasisStars == { s \in StarIds : ~star(s).cancel }

\* C11: the input of convertFieldComponentsToDft has one slot for each star
\* that is not cancelled, in the order of the stars, and none for a
\* cancelled star; in the output every slot of a wave of a cancelled star
\* is zero.
C11_CancelledStarsZero ==
    (op = "componentsToDft" /\ error = "none") =>
        /\ DOMAIN componentsIn = 0..(nBasis - 1)
        /\ { BasisId(s) : s \in BasisStars } = 0..(nBasis - 1)
        /\ \A s \in BasisStars : \A t \in BasisStars :
              s < t => BasisId(s) < BasisId(t)
        /\ \A i \in WaveIds :
              star(wave(i).starId).cancel => dft[DftSlot(i)] = <<0, 0>>

\* Components without a zero were converted in a basis that has a cancelled
\* star, and the output is not zero everywhere.
C11_Witness ==
    /\ op = "componentsToDft"
    /\ error = "none"
    /\ nBasis < nStar
    /\ \A j \in DOMAIN componentsIn : componentsIn[j] # 0
    /\ \E r \in DOMAIN dft : dft[r] # <<0, 0>>

\* The DFT array x with other values in the slots of the implicit waves.
OtherImplicitValues(x) ==
    [r \in DOMAIN x |->
        IF wave(waveId_[r]).implicit THEN <<r + MaxCoef + 1, 2 * r + 1>> ELSE x[r]]

WavesWithoutNorm == [i \in DOMAIN waves_ |-> [waves_[i] EXCEPT !.sqNorm = 0]]

\* C13: update and makeDksq leave the orbits as they are: the starId,
\* indices, implicit flag and coefficient of every wave, every field of
\* every star, and the numbers of waves and stars are the same after the
\* call as before it.
C13_OrbitsUnchanged ==
    [][(op' \in {"update", "makeDksq"} /\ error' = "none") =>
          /\ WavesWithoutNorm' = WavesWithoutNorm
          /\ stars_' = stars_
          /\ waveId_' = waveId_
          /\ nWave_' = nWave_
          /\ nStar_' = nStar_]_vars

\* makeDksq ran on a basis whose squared norms an update had changed so
\* that they are no longer in the order of the stars.
C13_Witness ==
    /\ op = "makeDksq"
    /\ error = "none"
    /\ dksq # Empty
    /\ \E s \in StarIds : s + 1 \in StarIds /\ StarSqNorm(s) < StarSqNorm(s + 1)

DomainPaths == { "Domain::makeBasis", "readParameters", "readRGridFieldHeader" }

C17_AccessorsFailOutOfRange ==
    [][ /\ \A i \in (-1)..(nWave_ + 1) :
            (waveCall(i) /\ (i < 0 \/ i >= nWave_))
                => (error' = "IndexOutOfRange" /\ result' = "none")
        /\ \A i \in (-1)..(nStar_ + 1) :
            (starCall(i) /\ (i < 0 \/ i >= nStar_))
                => (error' = "IndexOutOfRange" /\ result' = "none") ]_vars

\* star(i) has been called on a made basis with an index that is no star and
\* has returned.
C17_Witness ==
    /\ isInitialized_
    /\ op = "star"
    /\ error = "none"
    /\ result = "indeterminate"

\* C18: a call of setUnitCell that changes the lattice system of the unit
\* cell of a Domain whose basis is made rebuilds the Wave and Star tables,
\* for the new unit cell; a call that changes only the parameters leaves the
\* tables as they are.
C18_RebuildOnLatticeChange ==
    [][ /\ \A cell \in UnitCells :
            (/\ setUnitCell(cell) \/ setUnitCellLattice(cell.lattice, Parameters(cell))
             /\ isInitialized_
             /\ unitCell.lattice # "Null"
             /\ cell.lattice # unitCell.lattice)
            => (built' /\ Tables' = MakeTables(mesh, cell, DomainGroup))
        /\ \A cell \in UnitCells :
            (/\ \/ setUnitCell(cell)
                \/ setUnitCellLattice(cell.lattice, Parameters(cell))
                \/ setUnitCellParameters(Parameters(cell))
             /\ isInitialized_
             /\ cell.lattice = unitCell.lattice)
            => (~built' /\ Tables' = Tables) ]_vars

\* A Domain that has read its parameters holds the tables made for a
\* rectangular unit cell, and setUnitCell has given it a square unit cell
\* without a failure and without a rebuild.
C18_Witness ==
    /\ op = "setUnitCell"
    /\ error = "none"
    /\ ~built
    /\ isInitialized_
    /\ waveList_.isAllocated
    /\ unitCell.lattice = "Square"
    /\ lattice_ = "Square"
    /\ mesh[1] * mesh[2] > 0
    /\ Tables = MakeTables(mesh, [lattice |-> "Rectangular", a |-> 1, b |-> 2], DomainGroup)
    /\ Tables # MakeTables(mesh, unitCell, DomainGroup)

OwnCoefficients(i) ==
    IF star(wave(i).starId).cancel THEN {} ELSE { BasisId(wave(i).starId) }

\* With it the slot of the other star of the pair, for a wave of a star that
\* is paired under inversion.
PairCoefficients(i) ==
    IF star(wave(i).starId).cancel THEN {}
    ELSE CASE star(wave(i).starId).invertFlag = 0 -> { BasisId(wave(i).starId) }
           [] star(wave(i).starId).invertFlag = 1 ->
                { BasisId(wave(i).starId), BasisId(wave(i).starId + 1) }
           [] star(wave(i).starId).invertFlag = -1 ->
                { BasisId(wave(i).starId - 1), BasisId(wave(i).starId) }

\* What the tasks have written does not depend on their order: no slot has
\* been written twice, the slots written are those of the tasks that ran,
\* each holds the value of the whole conversion, and when all tasks have run
\* the DFT array is that of the whole conversion.
TasksDisjoint ==
    /\ \A r \in DOMAIN writeCount : writeCount[r] <= 1
    /\ DOMAIN dft = UNION { TaskSlots(i) : i \in (0..(nWave_ - 1)) \ pending }
    /\ \A r \in DOMAIN dft : dft[r] = WaveDft(components, waveId_[r])
    /\ pending = {} => dft = ComponentsToDft(components)

IsCentroSymmetric(name) ==
    \E g \in GroupOps(name) : g.R = << <<-1, 0>>, <<0, -1>> >>

\* C21: every star has invertFlag 0, +1 or -1 and signFlag +1 or -1; when the
\* group holds the inversion every star has invertFlag 0.
C21_FlagRanges ==
    isInitialized_ =>
        \A s \in 0..(nStar_ - 1) :
            /\ star(s).invertFlag \in {0, 1, -1}
            /\ star(s).signFlag \in {1, -1}
            /\ IsCentroSymmetric(groupName) => star(s).invertFlag = 0

\* A basis has been made for a group that holds the inversion, with a star
\* of several waves, and one for a group that does not, with a pair of stars.
C21_Witness ==
    /\ op = "makeBasis"
    /\ isInitialized_
    /\ \/ /\ IsCentroSymmetric(groupName)
          /\ \E s \in 0..(nStar_ - 1) : star(s).size >= 2 /\ star(s).signFlag = 1
       \/ /\ ~IsCentroSymmetric(groupName)
          /\ \E s \in 0..(nStar_ - 1) : star(s).invertFlag = -1 /\ star(s).signFlag = -1

\* Slot of the star of the origin in an array of components.
OriginSlot == BasisId(wave(waveId_[0]).starId)

\* Is c zero but for the coefficient of the star of the origin?
IsOriginOnly(c) == \A j \in DOMAIN c : j # OriginSlot => c[j] = 0

\* C22: for a square mesh of 4 x 4 points and the group of the identity
\* alone makeBasis gives nWave() = 16 and nStar() = 16 with no star
\* cancelled, and the components that are zero but for the star of the origin
\* come back unchanged from convertFieldComponentsToDft followed by
\* convertFieldDftToComponents.
C22_IdentityGroupScenario ==
    (isInitialized_ /\ mesh = <<4, 4>> /\ groupName = "I")
        => /\ nWave = 16
           /\ nStar = 16
           /\ \A s \in 0..(nStar_ - 1) : ~star(s).cancel
           /\ (op = "dftToComponents" /\ IsOriginOnly(componentsIn))
                 => components = componentsIn

\* On the 4 x 4 mesh with the identity group the components with a nonzero
\* coefficient for the origin alone have been converted to a DFT array, in
\* which only the slot of the origin is not zero, and back.
C22_Witness ==
    /\ mesh = <<4, 4>>
    /\ unitCell.lattice = "Square"
    /\ groupName = "I"
    /\ isInitialized_
    /\ op = "dftToComponents"
    /\ error = "none"
    /\ IsOriginOnly(componentsIn)
    /\ componentsIn[OriginSlot] = MaxCoef
    /\ dft[0] # <<0, 0>>
    /\ \A r \in 1..(nWave_ - 1) : dft[r] = <<0, 0>>

\* C23: monomer(id), polymer(id) and solvent(id) return an element for
\* exactly the ids with 0 <= id < nMonomer, 0 <= id < nPolymer and
\* 0 <= id < nSolvent; with any other id, a negative one too, the call fails
\* its check and takes no element of the array.
C23_MixtureAccessorsChecked ==
    [][ \A id \in SpeciesIds :
          /\ monomerCall(id) =>
                IF 0 <= id /\ id < nMonomer_
                THEN error' = "none" /\ result' = "entry"
                ELSE error' = "Exception" /\ result' = "none"
          /\ polymerCall(id) =>
                IF 0 <= id /\ id < nPolymer_
                THEN error' = "none" /\ result' = "entry"
                ELSE error' = "Exception" /\ result' = "none"
          /\ solventCall(id) =>
                IF 0 <= id /\ id < nSolvent_
                THEN error' = "none" /\ result' = "entry"
                ELSE error' = "Exception" /\ result' = "none" ]_vars

\* monomer(id) has passed its check and returned for an id that is no
\* monomer type of a mixture that was read.
C23_Witness ==
    /\ op = "monomer"
    /\ nMonomer_ > 0
    /\ nPolymer_ > 0
    /\ error = "none"
    /\ result = "indeterminate"

\* Sum of the numbers of blocks of the first n polymers.
SumOfBlocks(blocks, n) ==
    LET sum[i \in 0..n] == IF i = 0 THEN 0 ELSE sum[i - 1] + blocks[i]
    IN  sum[n]

\* C24: after MixtureTmpl::readParameters has returned, nPieces() is
\* nSolvent() plus the sum of nBlock() over the nPolymer() polymers, and
\* nSolvent() is 0 when the file holds no nSolvent.
C24_PiecesCounted ==
    [][ (op' = "Mixture::readParameters" /\ error' = "none") =>
        \A hasNSolvent \in BOOLEAN : \A nSolvent \in 0..MaxSpecies :
        \A ids \in {"inRange", "tooLarge", "negative"} :
            mixtureReadParameters(nMonomer_', nPolymer_', hasNSolvent, nSolvent,
                                  polymers_', ids)
            => /\ Len(polymers_') = nPolymer_'
               /\ nPieces_' = nSolvent_' + SumOfBlocks(polymers_', nPolymer_')
               /\ nSolvent_' = (IF hasNSolvent THEN nSolvent ELSE 0) ]_vars

\* A mixture of two polymers and two solvents has been read: four or more
\* pieces.
C24_Witness ==
    /\ op = "Mixture::readParameters"
    /\ error = "none"
    /\ nPolymer_ = 2
    /\ nSolvent_ = 2
    /\ solvents_ = 2
    /\ polymers_[1] # polymers_[2]
    /\ nPieces_ = 5

\* C25: on every path of the Domain (readParameters, readRGridFieldHeader,
\* setUnitCell, Domain::makeBasis) Basis::makeBasis is called only when the
\* mesh has grid points, the unit cell has a lattice system and parameters,
\* and the group has been read for the group name the Domain holds.
C25_MakeBasisAfterInputsKnown ==
    "Basis::makeBasis" \in calls =>
        /\ mesh[1] * mesh[2] > 0
        /\ unitCell.lattice # "Null"
        /\ IsInitializedCell(unitCell)
        /\ group_ # ""
        /\ group_ = groupName

\* setUnitCell has called Basis::makeBasis, which has built the tables, on a
\* Domain with a mesh and a unit cell whose group has never been read.
C25_Witness ==
    /\ op \in {"setUnitCell", "setUnitCellLattice"}
    /\ "Basis::makeBasis" \in calls
    /\ built
    /\ mesh[1] * mesh[2] > 0
    /\ IsInitializedCell(unitCell)
    /\ group_ = ""

\* C26: setUnitCell(unitCell) and setUnitCell(lattice, parameters), called
\* with a lattice system other than the one the Domain holds, fail and leave
\* lattice_, unitCell_, the basis and the WaveList as they were; called on a
\* Domain that holds no lattice system they set lattice_ to the one given.
C26_LatticeMismatchRejected ==
    [][ \A cell \in DomainCells :
          /\ (/\ \/ setUnitCell(cell)
                  \/ (cell \in UnitCells
                        /\ setUnitCellLattice(cell.lattice, Parameters(cell)))
               /\ lattice_ # "Null"
               /\ cell.lattice # lattice_)
              => /\ error' = "Exception"
                 /\ UNCHANGED <<lattice_, unitCell, waveList_, isInitialized_>>
                 /\ Tables' = Tables
          /\ (/\ \/ setUnitCell(cell)
                  \/ (cell \in UnitCells
                        /\ setUnitCellLattice(cell.lattice, Parameters(cell)))
               /\ lattice_ = "Null")
              => lattice_' = cell.lattice ]_vars

\* setUnitCell was called with another lattice system on a Domain that holds
\* one, a basis and a WaveList with squared norms: it failed before any call.
C26_Witness ==
    /\ op \in {"setUnitCell", "setUnitCellLattice"}
    /\ error = "Exception"
    /\ calls = {}
    /\ lattice_ # "Null"
    /\ isInitialized_
    /\ waveList_.hasKSq

\* C27: an overload of setUnitCell that returns leaves the basis
\* initialized; setUnitCell and Domain::makeBasis call Basis::makeBasis only
\* when the basis is not initialized, so that they build the basis at most
\* once; and Domain::makeBasis called again after it has returned changes
\* nothing.
C27_BasisMadeIfNeeded ==
    [][ /\ (/\ op' \in {"setUnitCell", "setUnitCellLattice",
                        "setUnitCellParameters"}
            /\ error' = "none") => isInitialized_'
        /\ (op' \in {"setUnitCell", "setUnitCellLattice",
                     "setUnitCellParameters", "Domain::makeBasis"})
              => /\ ("Basis::makeBasis" \in calls' \/ built') => ~isInitialized_
                 /\ isInitialized_ => (isInitialized_' /\ Tables' = Tables)
        /\ (op = "Domain::makeBasis" /\ error = "none" /\ domainMakeBasis)
              => /\ Tables' = Tables
                 /\ UNCHANGED <<mesh, unitCell, groupName, group_, lattice_,
                                waveList_, isInitialized_, error>> ]_vars

\* Domain::makeBasis has returned on a Domain whose basis setUnitCell had
\* made: it has called nothing.
C27_Witness ==
    /\ op = "Domain::makeBasis"
    /\ error = "none"
    /\ calls = {}
    /\ isInitialized_
    /\ lattice_ # "Null"
    /\ waveList_.hasKSq

\* C28: whenever setUnitCell calls waveList_.computeKSq / computedKSq, the
\* WaveList has been allocated and its minimum images have been computed,
\* whatever the order of the readParameters, readRGridFieldHeader and
\* setUnitCell calls before.
C28_KSqAfterMinimumImages ==
    "WaveList::computeKSq" \in calls =>
        /\ waveList_.isAllocated
        /\ waveList_.hasMinimumImages

\* setUnitCell has called computeKSq on a WaveList that was never allocated:
\* readRGridFieldHeader had initialized the basis, so makeBasis() was
\* skipped.
C28_Witness ==
    /\ op \in {"setUnitCell", "setUnitCellLattice", "setUnitCellParameters"}
    /\ "WaveList::computeKSq" \in calls
    /\ "Basis::makeBasis" \notin calls
    /\ isInitialized_
    /\ ~waveList_.isAllocated
    /\ ~waveList_.hasMinimumImages

C30_UpdateFromInitial ==
    [][ /\ (op' = "LinearSweepParameter::getInitial" /\ error' = "none")
              => (hasInitial' /\ initial_' = current /\ current' = current)
        /\ (hasInitial /\ op' = "LinearSweepParameter::update")
              => /\ error' = "none"
                 /\ initial_' = initial_
                 /\ current' = initial_ + Scaled(sweepS', change_)
                 /\ sweepS' = 0 => current' = initial_
                 /\ sweepS' = SweepSteps => current' = initial_ + change_ ]_vars

\* update(s) with 0 < s < 1 has returned on a Kuhn parameter whose change_
\* is not zero: the monomer and its blocks hold the value that lies the
\* fraction s of the way from initial_ to initial_ + change_.
C30_Witness ==
    /\ op = "LinearSweepParameter::update"
    /\ error = "none"
    /\ hasInitial
    /\ change_ # 0
    /\ sweepS \notin {0, SweepSteps}
    /\ SweepSteps * (current - initial_) = sweepS * change_
    /\ type_ = "kuhn"
    /\ \E k \in SystemKeys : k[1] = "blockKuhn" /\ system[k] = current
====
